---- MODULE Spec2Model ----
(***************************************************************************)
(* Model of example/main.ts of sculpty: the orchestration layer of the     *)
(* voxel editor.  One action per event listener / callback registered by   *)
(* main.ts, plus the module's top-level startup code.                      *)
(*                                                                         *)
(* Time is kept in integers: the host clock in milliseconds, the values    *)
(* returned by Clock.getDelta() (seconds) in microseconds.                 *)
(***************************************************************************)
EXTENDS Integers, Sequences, FiniteSets, TLC

(* ------------------------------ bounds --------------------------------- *)

\* longest list returned by storage.listStored()
MaxStored == 2
\* largest y of a stored chunk
MaxStoredY == 5
\* longest gap, in seconds, between two reads of the host clock
MaxGapSeconds == 10

(* -------------------------- program constants -------------------------- *)

\* Math.min(clock.getDelta(), 1): one second, in microseconds
OneSecond == 1000000
\* (newTime - oldTime) / 1000 in Clock.getDelta(): microseconds per millisecond
MicrosPerMilli == 1000
\* for (let i = 0; i < 4; i++) walk.update(delta / 4)
SubSteps == 4
\* for (let z = -3; z <= 3; z++), for (let x = -3; x <= 3; x++)
Radius == 3
\* Math.min(1 + ..., 3)
MaxYCap == 3
\* fixed-point scale of the modelled Math.sqrt (three decimals)
SqrtScale == 1000

VARIABLES
    pc,              \* "start" | "running" | "aborted" | "reloading": the page's life cycle
    hasUi,           \* document.getElementById('ui') is not null
    hasViewport,     \* document.getElementById('viewport') is not null
    stored,          \* storage.listStored(): sequence of [x, y, z]
    requests,        \* world.updateChunk calls issued so far, in order: sequence of <<x, y, z>>
    needsUpdate,     \* let needsUpdate
    enablePan,       \* controls.enablePan
    enableRotate,    \* controls.enableRotate
    controlsEnabled, \* controls.enabled
    walkEnabled,     \* walk.isEnabled()
    uiDisplay,       \* ui.style.display
    triangles,       \* materials.triangles.visible
    voxels,          \* materials.voxels.visible
    gesture,         \* "none" | "accepted" | "rejected": the drag gesture in progress
    clockRunning,    \* clock.running
    lastTick,        \* "none": no tick yet since the page loaded; "reference": clock.oldTime
                     \* is the previous tick's reading; "superseded": clock.start() has
                     \* moved clock.oldTime since the previous tick
    ev,              \* the event whose handler ran last
    log              \* the collaborator calls that handler made, in order

vars == << pc, hasUi, hasViewport, stored, requests, needsUpdate, enablePan,
           enableRotate, controlsEnabled, walkEnabled, uiDisplay, triangles,
           voxels, gesture, clockRunning, lastTick, ev, log >>

(* ------------------------------ helpers -------------------------------- *)

Min(a, b) == IF a <= b THEN a ELSE b

Max(a, b) == IF a >= b THEN a ELSE b

Call(op, arg) == [op |-> op, arg |-> arg]

\* an event as its handler saw it: the key event's fields for keydown/keyup; for a
\* tick the host time since the previous tick (gap) and since clock.oldTime
\* (elapsed), both in milliseconds, whether there was a previous tick, the local
\* delta (microseconds) and the value of needsUpdate at the test of line 158; for
\* a non-repeat Tab key-down the visibility pairs <<triangles, voxels>> read by it
\* and by the non-repeat Tab key-down handled directly before it, if any
Event(type, code, ctrl, shift, repeat, gap, elapsed, first, delta, dirty) ==
    [type |-> type, code |-> code, ctrl |-> ctrl, shift |-> shift, repeat |-> repeat,
     gap |-> gap, elapsed |-> elapsed, first |-> first, delta |-> delta, dirty |-> dirty,
     views |-> << >>]

\* the Tab key-down event that follows prev and reads the visibility pair
TabEvent(prev, pair) ==
    [Event("keydown", "Tab", FALSE, FALSE, FALSE, 0, 0, FALSE, 0, FALSE)
        EXCEPT !.views = (IF prev.views = << >> THEN << >>
                          ELSE << prev.views[Len(prev.views)] >>) \o << pair >>]

PlainEvent(type) == Event(type, "", FALSE, FALSE, FALSE, 0, 0, FALSE, 0, FALSE)

KeyEvent(type, code, ctrl, shift, repeat) ==
    Event(type, code, ctrl, shift, repeat, 0, 0, FALSE, 0, FALSE)

TickEvent(gap, elapsed, first, delta, dirty) ==
    Event("tick", "", FALSE, FALSE, FALSE, gap, elapsed, first, delta, dirty)

\* number of calls of op in a log
Count(l, op) == Cardinality({i \in 1..Len(l) : l[i].op = op})

\* the key codes the listeners test, and one they do not ("KeyA")
Codes == {"Escape", "Tab", "Backspace", "Space", "Digit1", "Digit3", "KeyE", "KeyZ",
          "KeyA"}

\* the key-down events delivered: every code alone, and with the modifiers the
\* listener reads where it reads them
KeyChords ==
    {KeyEvent("keydown", c, FALSE, FALSE, r) : c \in Codes, r \in BOOLEAN}
    \cup {KeyEvent("keydown", c, TRUE, FALSE, r) : c \in {"Backspace", "KeyZ"}, r \in BOOLEAN}
    \cup {KeyEvent("keydown", "KeyZ", k, TRUE, r) : k \in BOOLEAN, r \in BOOLEAN}

\* the key-up events delivered
KeyUpCodes == {"Space", "Escape", "KeyA"}

\* host time between two readings of the clock, in milliseconds
GapValues == {0, 16, 1000, MaxGapSeconds * 1000}

StoredCoords == {[x |-> 0, y |-> yy, z |-> 0] : yy \in -1..MaxStoredY}

\* the lists storage.listStored() may return
StoredLists == UNION {[1..n -> StoredCoords] : n \in 0..MaxStored}

\* an empty store, one chunk above the ground layer, one far above the cap
SampleLists ==
    { << >>, << [x |-> 0, y |-> 1, z |-> 0] >>, << [x |-> 0, y |-> MaxStoredY, z |-> 0] >> }

(* ---------------------- chunk load block (startup) --------------------- *)

\* storage.listStored().reduce((max, { y }) => Math.max(max, y), 0)
RECURSIVE ReduceMaxY(_, _, _)
ReduceMaxY(list, i, acc) ==
    IF i > Len(list) THEN acc
    ELSE ReduceMaxY(list, i + 1, Max(acc, list[i].y))

MaxYPlusHeadroom(list) == 1 + ReduceMaxY(list, 1, 0)

\* const maxY = Math.min(1 + reduce(...), 3)
MaxYNoHeadroom(list) == Min(ReduceMaxY(list, 1, 0), MaxYCap)

MaxY(list) == Min(MaxYPlusHeadroom(list), MaxYCap)

\* largest x*x + y*y + z*z over the region
MaxD2 == 2 * Radius * Radius + MaxYCap * MaxYCap

\* Math.sqrt on the integers 0..MaxD2, rounded down to 1/SqrtScale
SqrtTable ==
    [n \in 0..MaxD2 |->
        CHOOSE r \in 0..(SqrtScale * (MaxYCap + 2 * Radius)) :
            /\ r * r <= n * SqrtScale * SqrtScale
            /\ (r + 1) * (r + 1) > n * SqrtScale * SqrtScale]

Sqrt(n) == SqrtTable[n]

\* chunks.push({ x, y, z, d: Math.sqrt(x * x + y * y + z * z) })
ChunkTypo(x, y, z) == [x |-> x, y |-> y, z |-> x, d |-> Sqrt(x * x + y * y + z * z)]

Chunk(x, y, z) == [x |-> x, y |-> y, z |-> z, d |-> Sqrt(x * x + y * y + z * z)]

\* the three nested loops: z outermost, then y, then x
Enumerate(maxY) ==
    LET w == 2 * Radius + 1
        h == maxY + 1
    IN  [k \in 1..(w * h * w) |->
            Chunk(((k - 1) % w) - Radius,
                  ((k - 1) \div w) % h,
                  ((k - 1) \div (w * h)) - Radius)]

\* the comparator ({ d: a }, { d: b }) => a - b
Compare(a, b) == a.d - b.d

\* Array.prototype.sort is stable: an element ends up behind exactly the
\* elements that compare below it and the equal ones that preceded it
RankUnstable(s, k) ==
    1 + Cardinality({j \in 1..Len(s) :
            \/ Compare(s[j], s[k]) < 0
            \/ Compare(s[j], s[k]) = 0 /\ j > k})

Rank(s, k) ==
    1 + Cardinality({j \in 1..Len(s) :
            \/ Compare(s[j], s[k]) < 0
            \/ Compare(s[j], s[k]) = 0 /\ j < k})

\* chunks.sort(...)
Sort(s) ==
    LET place == {<<Rank(s, k), k>> : k \in 1..Len(s)}
    IN  [p \in 1..Len(s) |-> s[CHOOSE k \in 1..Len(s) : <<p, k>> \in place]]

\* chunks.forEach(({ x, y, z }) => world.updateChunk(x, y, z))
LoadOrder(list) ==
    LET sorted == Sort(Enumerate(MaxY(list)))
    IN  [k \in 1..Len(sorted) |-> <<sorted[k].x, sorted[k].y, sorted[k].z>>]

(* ------------------------------- startup ------------------------------- *)

InitWith(lists, surfaces) ==
    /\ pc = "start"
    /\ hasUi \in surfaces
    /\ hasViewport \in surfaces
    /\ stored \in lists
    /\ requests = <<>>
    /\ needsUpdate = FALSE
    /\ enablePan = FALSE
    /\ enableRotate = FALSE
    /\ controlsEnabled = FALSE
    /\ walkEnabled = FALSE
    /\ uiDisplay = "none"
    /\ triangles \in BOOLEAN
    /\ voxels \in BOOLEAN
    /\ gesture = "none"
    /\ clockRunning = FALSE
    /\ lastTick = "none"
    /\ ev = PlainEvent("load")
    /\ log = <<>>

Init == InitWith(SampleLists, BOOLEAN)

\* every stored list, on a page that has both surfaces
InitLoad == InitWith(StoredLists, {TRUE})

\* if (!ui) throw ...; if (!viewport) throw ...
StartupAbortsUiOnly(ui, viewport) == ~ui

StartupAborts(ui, viewport) == ~ui \/ ~viewport

\* the listeners and callbacks the top-level code registers, in order
Registrations ==
    << Call("addEventListener", "contextmenu"), Call("addEventListener", "touchstart"),
       Call("addEventListener", "resize"), Call("addEventListener", "world.change"),
       Call("addEventListener", "controls.change"), Call("addEventListener", "dragstart"),
       Call("addEventListener", "dragmove"), Call("addEventListener", "dragend"),
       Call("addEventListener", "keydown"), Call("addEventListener", "keyup"),
       Call("addEventListener", "visibilitychange"), Call("setAnimationLoop", "") >>

\* the top-level code of main.ts, run once when the page loads
Startup ==
    /\ pc = "start"
    /\ ev' = PlainEvent("startup")
    /\ IF StartupAborts(hasUi, hasViewport)
       THEN /\ pc' = "aborted"
            /\ log' = << Call("throw", IF hasUi THEN "viewport" ELSE "ui") >>
            /\ UNCHANGED << requests, needsUpdate, enablePan, enableRotate,
                            controlsEnabled, walkEnabled, uiDisplay, clockRunning >>
       ELSE /\ pc' = "running"
            /\ needsUpdate' = TRUE
            /\ uiDisplay' = ""
            /\ controlsEnabled' = TRUE
            /\ enablePan' = FALSE
            /\ enableRotate' = FALSE
            /\ walkEnabled' = FALSE
            /\ clockRunning' = FALSE
            /\ log' = Registrations
            /\ requests' = requests \o LoadOrder(stored)
    /\ UNCHANGED << hasUi, hasViewport, stored, triangles, voxels, gesture, lastTick >>

(* --------------------------- pointer gestures -------------------------- *)

\* if (!controls.enablePan && !walk.isEnabled())
DrawGateIgnoresWalk(pan, walk) == ~pan

DrawGate(pan, walk) == ~pan /\ ~walk

\* world.addEventListener('change', ...): a world mutation made by a handler
\* may notify synchronously
NotifiedOverwrites(dirty, changed) == changed

Notified(dirty, changed) == dirty \/ changed

DragStart ==
    /\ pc = "running"
    /\ gesture = "none"
    /\ ev' = PlainEvent("dragstart")
    /\ IF DrawGate(enablePan, walkEnabled)
       THEN /\ log' = << Call("drawing.start", "") >>
            /\ gesture' = "accepted"
            /\ \E changed \in BOOLEAN : needsUpdate' = Notified(needsUpdate, changed)
       ELSE /\ log' = << >>
            /\ gesture' = "rejected"
            /\ UNCHANGED needsUpdate
    /\ UNCHANGED << pc, hasUi, hasViewport, stored, requests, enablePan, enableRotate,
                    controlsEnabled, walkEnabled, uiDisplay, triangles, voxels,
                    clockRunning, lastTick >>

\* input.addEventListener('dragmove', (e) => drawing.move(e))
MoveCallsAcceptedOnly(g, pan, walk) ==
    IF g = "accepted" THEN << Call("drawing.move", "") >> ELSE << >>

MoveCallsGated(g, pan, walk) ==
    IF DrawGate(pan, walk) THEN << Call("drawing.move", "") >> ELSE << >>

MoveCalls(g, pan, walk) == << Call("drawing.move", "") >>

DragMove ==
    /\ pc = "running"
    /\ gesture # "none"
    /\ ev' = PlainEvent("dragmove")
    /\ log' = MoveCalls(gesture, enablePan, walkEnabled)
    /\ \E changed \in BOOLEAN : needsUpdate' = Notified(needsUpdate, changed)
    /\ UNCHANGED << pc, hasUi, hasViewport, stored, requests, enablePan, enableRotate,
                    controlsEnabled, walkEnabled, uiDisplay, triangles, voxels, gesture,
                    clockRunning, lastTick >>

DragEnd ==
    /\ pc = "running"
    /\ gesture # "none"
    /\ ev' = PlainEvent("dragend")
    /\ log' = << Call("drawing.end", "") >>
    /\ gesture' = "none"
    /\ \E changed \in BOOLEAN : needsUpdate' = Notified(needsUpdate, changed)
    /\ UNCHANGED << pc, hasUi, hasViewport, stored, requests, enablePan, enableRotate,
                    controlsEnabled, walkEnabled, uiDisplay, triangles, voxels,
                    clockRunning, lastTick >>

(* ------------------------------- keyboard ------------------------------ *)

\* if (!repeat && code === 'Escape')
IsToggleWalk(code, repeat) == ~repeat /\ code = "Escape"

\* if (!repeat && code === 'Tab')
IsToggleMaterialView(code, repeat) == ~repeat /\ code = "Tab"

\* if (!repeat && ctrlKey && code === 'Backspace')
IsResetState(code, ctrl, repeat) == ~repeat /\ ctrl /\ code = "Backspace"

\* if (walk.isEnabled()) return;
WalkNeverCaptures(walk) == FALSE

WalkCaptures(walk) == walk

\* if (!repeat && code === 'Space')
IsModifierDown(code, repeat) == ~repeat /\ code = "Space"

\* ['Digit1', 'Digit2', 'Digit3'].indexOf(code)
SizeIndex(code) ==
    CASE code = "Digit1" -> 0
      [] code = "Digit2" -> 1
      [] code = "Digit3" -> 2
      [] OTHER -> -1

\* if (!repeat && ['Digit1', 'Digit2', 'Digit3'].includes(code))
IsSetCursorSize(code, repeat) == ~repeat /\ SizeIndex(code) >= 0

\* if (!repeat && code === 'KeyE')
IsToggleOrientationMode(code, repeat) == ~repeat /\ code = "KeyE"

\* if (ctrlKey && code === 'KeyZ')
IsUndoRedoNoRepeat(code, ctrl, repeat) == ~repeat /\ ctrl /\ code = "KeyZ"

IsUndoRedo(code, ctrl, repeat) == ctrl /\ code = "KeyZ"

\* Walk.toggle(): flips the mode, hands the camera over from or back to the
\* orbit controls, and returns the new mode
WalkToggle(walk) == ~walk

\* the calls the keydown listener makes before the walk.isEnabled() test
KeyDownHead(code, ctrl, repeat) ==
       (IF IsToggleWalk(code, repeat) THEN << Call("walk.toggle", "") >> ELSE << >>)
    \o (IF IsToggleMaterialView(code, repeat)
        THEN << Call("preventDefault", ""), Call("materials.triangles.visible=", ""),
                Call("materials.voxels.visible=", "") >>
        ELSE << >>)
    \o (IF IsResetState(code, ctrl, repeat)
        THEN << Call("preventDefault", ""), Call("localStorage.clear", ""),
                Call("location.reload", "") >>
        ELSE << >>)

\* the calls the keydown listener makes after the walk.isEnabled() test
KeyDownTail(code, ctrl, shift, repeat) ==
       (IF IsSetCursorSize(code, repeat)
        THEN << Call("size.setValue", SizeIndex(code)) >> ELSE << >>)
    \o (IF IsToggleOrientationMode(code, repeat)
        THEN << Call("orientation.toggleMode", "") >> ELSE << >>)
    \o (IF IsUndoRedo(code, ctrl, repeat)
        THEN << Call("preventDefault", ""),
                Call(IF shift THEN "world.redo" ELSE "world.undo", "") >>
        ELSE << >>)

\* materials.triangles.visible = !materials.triangles.visible;
\* materials.voxels.visible = !materials.triangles.visible
TabPairFlipsBoth(t, v) == << ~t, ~v >>

TabPair(t, v) == << ~t, ~(~t) >>

\* controls.enablePan = controls.enableRotate = true
ModifierDownFlags(pans, pan, rotate) ==
    IF pans THEN << TRUE, TRUE >> ELSE << pan, rotate >>

KeyDown(code, ctrl, shift, repeat) ==
    LET toggles  == IsToggleWalk(code, repeat)
        walkNow  == IF toggles THEN WalkToggle(walkEnabled) ELSE walkEnabled
        tab      == IsToggleMaterialView(code, repeat)
        reset    == IsResetState(code, ctrl, repeat)
        captured == WalkCaptures(walkNow)
        pans     == ~captured /\ IsModifierDown(code, repeat)
        edits    == ~captured /\ IsUndoRedo(code, ctrl, repeat)
    IN  /\ pc = "running"
        /\ pc' = IF reset THEN "reloading" ELSE pc
        /\ ev' = IF tab /\ ~ctrl /\ ~shift
                 THEN TabEvent(ev, << triangles, voxels >>)
                 ELSE KeyEvent("keydown", code, ctrl, shift, repeat)
        /\ walkEnabled' = walkNow
        /\ controlsEnabled' = IF toggles THEN ~walkNow ELSE controlsEnabled
        /\ uiDisplay' = IF toggles THEN (IF walkNow THEN "none" ELSE "") ELSE uiDisplay
        /\ triangles' = IF tab THEN TabPair(triangles, voxels)[1] ELSE triangles
        /\ voxels' = IF tab THEN TabPair(triangles, voxels)[2] ELSE voxels
        /\ stored' = IF reset THEN << >> ELSE stored
        /\ enablePan' = ModifierDownFlags(pans, enablePan, enableRotate)[1]
        /\ enableRotate' = ModifierDownFlags(pans, enablePan, enableRotate)[2]
        /\ log' = KeyDownHead(code, ctrl, repeat)
                  \o (IF captured THEN << >> ELSE KeyDownTail(code, ctrl, shift, repeat))
        /\ \E changed \in BOOLEAN :
              /\ changed => (edits \/ toggles)
              /\ needsUpdate' = Notified(needsUpdate \/ tab, changed)
        /\ UNCHANGED << hasUi, hasViewport, requests, gesture, clockRunning, lastTick >>

\* if (code === 'Space') in the keyup listener
IsModifierUp(code) == code = "Space"

\* controls.enablePan = controls.enableRotate = false
ModifierUpFlagsPanOnly(releases, pan, rotate) ==
    IF releases THEN << FALSE, rotate >> ELSE << pan, rotate >>

ModifierUpFlags(releases, pan, rotate) ==
    IF releases THEN << FALSE, FALSE >> ELSE << pan, rotate >>

KeyUp(code) ==
    LET releases == ~WalkCaptures(walkEnabled) /\ IsModifierUp(code)
    IN  /\ pc = "running"
        /\ ev' = KeyEvent("keyup", code, FALSE, FALSE, FALSE)
        /\ log' = << >>
        /\ enablePan' = ModifierUpFlags(releases, enablePan, enableRotate)[1]
        /\ enableRotate' = ModifierUpFlags(releases, enablePan, enableRotate)[2]
        /\ UNCHANGED << pc, hasUi, hasViewport, stored, requests, needsUpdate,
                        controlsEnabled, walkEnabled, uiDisplay, triangles, voxels,
                        gesture, clockRunning, lastTick >>

(* --------------------------- dirty-flag sources ------------------------ *)

\* window 'resize' listener
Resize ==
    /\ pc = "running"
    /\ ev' = PlainEvent("resize")
    /\ log' = << >>
    /\ needsUpdate' = TRUE
    /\ UNCHANGED << pc, hasUi, hasViewport, stored, requests, enablePan, enableRotate,
                    controlsEnabled, walkEnabled, uiDisplay, triangles, voxels, gesture,
                    clockRunning, lastTick >>

\* world 'change' listener (a chunk finished loading, an edit was applied)
WorldChange ==
    /\ pc = "running"
    /\ ev' = PlainEvent("world.change")
    /\ log' = << >>
    /\ needsUpdate' = TRUE
    /\ UNCHANGED << pc, hasUi, hasViewport, stored, requests, enablePan, enableRotate,
                    controlsEnabled, walkEnabled, uiDisplay, triangles, voxels, gesture,
                    clockRunning, lastTick >>

\* controls 'change' listener, fired by the controls' own pointer handling
ControlsChange ==
    /\ pc = "running"
    /\ ev' = PlainEvent("controls.change")
    /\ log' = << >>
    /\ needsUpdate' = TRUE
    /\ UNCHANGED << pc, hasUi, hasViewport, stored, requests, enablePan, enableRotate,
                    controlsEnabled, walkEnabled, uiDisplay, triangles, voxels, gesture,
                    clockRunning, lastTick >>

(* ------------------------- clock and render loop ----------------------- *)

\* document.visibilityState === 'visible' && clock.start()
VisibilityChange(visible) ==
    /\ pc = "running"
    /\ ev' = PlainEvent(IF visible THEN "visible" ELSE "hidden")
    /\ log' = IF visible THEN << Call("clock.start", "") >> ELSE << >>
    /\ clockRunning' = (clockRunning \/ visible)
    /\ lastTick' = IF visible /\ lastTick = "reference" THEN "superseded" ELSE lastTick
    /\ UNCHANGED << pc, hasUi, hasViewport, stored, requests, needsUpdate, enablePan,
                    enableRotate, controlsEnabled, walkEnabled, uiDisplay, triangles,
                    voxels, gesture >>

\* Clock.getDelta(): 0 on the call that starts the clock, else the time since
\* oldTime, in seconds
GetDelta(running, elapsedMs) == IF running THEN elapsedMs * MicrosPerMilli ELSE 0

\* Math.min(clock.getDelta(), 1)
Unclamped(d) == d

Clamp(d) == Min(d, OneSecond)

\* for (let i = 0; i < 4; i++) walk.update(delta / 4)
WalkUpdatesOneStep(delta) == << Call("walk.update", delta) >>

WalkUpdatesNone(delta) == << >>

WalkUpdates(delta) == [i \in 1..SubSteps |-> Call("walk.update", delta \div SubSteps)]

\* if (needsUpdate) { needsUpdate = false; postprocessing.render(...) }
RenderAlways(dirty) == << Call("render", "") >>

RenderNever(dirty) == << >>

RenderIfDirty(dirty) == IF dirty THEN << Call("render", "") >> ELSE << >>

\* the body of the callback: controls.update(), the walk sub-steps, then the
\* test of needsUpdate; before and after are the flag's values on entry and at
\* the test
TickCallsRenderFirst(delta, before, after) ==
    RenderIfDirty(before) \o << Call("controls.update", "") >> \o WalkUpdates(delta)

TickCalls(delta, before, after) ==
    << Call("controls.update", "") >> \o WalkUpdates(delta) \o RenderIfDirty(after)

\* the readings a tick can make: without a previous tick the gap is void; with
\* clock.oldTime still the previous tick's reading both times agree; after a
\* clock.start() the reference is no older than the previous tick
Readings(last, running) ==
    CASE last = "none" ->
           {<<0, e>> : e \in IF running THEN GapValues ELSE {0}}
      [] last = "reference" ->
           {<<g, g>> : g \in GapValues}
      [] OTHER ->
           {<<g, e>> \in GapValues \X GapValues : e <= g}

\* the setAnimationLoop callback
Tick(gap, elapsed) ==
    /\ pc = "running"
    /\ <<gap, elapsed>> \in Readings(lastTick, clockRunning)
    /\ \E changed \in BOOLEAN :
          LET delta == Clamp(GetDelta(clockRunning, elapsed))
              dirty == Notified(needsUpdate, changed)
          IN  /\ ev' = TickEvent(gap, elapsed, lastTick = "none", delta, dirty)
              /\ log' = TickCalls(delta, needsUpdate, dirty)
    /\ needsUpdate' = FALSE
    /\ clockRunning' = TRUE
    /\ lastTick' = "reference"
    /\ UNCHANGED << pc, hasUi, hasViewport, stored, requests, enablePan, enableRotate,
                    controlsEnabled, walkEnabled, uiDisplay, triangles, voxels, gesture >>

(* ------------------------------- reload -------------------------------- *)

\* location.reload() takes effect: the page is loaded again
Reload ==
    /\ pc = "reloading"
    /\ pc' = "start"
    /\ requests' = << >>
    /\ needsUpdate' = FALSE
    /\ enablePan' = FALSE
    /\ enableRotate' = FALSE
    /\ controlsEnabled' = FALSE
    /\ walkEnabled' = FALSE
    /\ uiDisplay' = "none"
    /\ triangles' \in BOOLEAN
    /\ voxels' \in BOOLEAN
    /\ gesture' = "none"
    /\ clockRunning' = FALSE
    /\ lastTick' = "none"
    /\ ev' = PlainEvent("load")
    /\ log' = << >>
    /\ UNCHANGED << hasUi, hasViewport, stored >>

(* ---------------------------- specification ---------------------------- *)

Next ==
    \/ Startup
    \/ DragStart
    \/ DragMove
    \/ DragEnd
    \/ \E k \in KeyChords : KeyDown(k.code, k.ctrl, k.shift, k.repeat)
    \/ \E code \in KeyUpCodes : KeyUp(code)
    \/ Resize
    \/ WorldChange
    \/ ControlsChange
    \/ \E visible \in BOOLEAN : VisibilityChange(visible)
    \/ \E gap \in GapValues, elapsed \in GapValues : Tick(gap, elapsed)
    \/ Reload

Spec == Init /\ [][Next]_vars

\* the page's load / reset / reload cycle alone, over every stored list
NextLoad ==
    \/ Startup
    \/ \E repeat \in BOOLEAN : KeyDown("Backspace", TRUE, FALSE, repeat)
    \/ Reload

SpecLoad == InitLoad /\ [][NextLoad]_vars

\* an empty store
InitFair == InitWith({ << >> }, BOOLEAN)

\* the host calls the setAnimationLoop callback again and again while the page
\* runs
SpecFair ==
    /\ InitFair
    /\ [][Next]_vars
    /\ WF_vars(\E gap \in GapValues, elapsed \in GapValues : Tick(gap, elapsed))

(* =============================== claims ================================ *)

\* the positions of the calls of op in a log
Calls(l, op) == {i \in 1..Len(l) : l[i].op = op}

IsKeyDown == ev.type = "keydown"

IsTick == ev.type = "tick"

(* ---------------------------------- C1 --------------------------------- *)

\* C1: in every reachable state controls.enablePan and walk.isEnabled() are
\* not both true.
C1_PanWalkExclusive == ~(enablePan /\ walkEnabled)

(* ---------------------------------- C2 --------------------------------- *)

\* C2: a drag-start event calls drawing.start exactly once if Pan is disabled
\* and Walk is disabled at the event, and not at all otherwise.  (The listener
\* writes neither flag, so their values after it are their values at the event.)
C2_DrawStartIffGate ==
    ev.type = "dragstart" =>
        Count(log, "drawing.start") = (IF ~enablePan /\ ~walkEnabled THEN 1 ELSE 0)

\* a drag-start delivered while Pan was enabled and Walk was off started no draw
C2_Witness ==
    /\ ev.type = "dragstart"
    /\ enablePan
    /\ ~walkEnabled
    /\ Count(log, "drawing.start") = 0

(* ---------------------------------- C3 --------------------------------- *)

Dist2(c) == c[1] * c[1] + c[2] * c[2] + c[3] * c[3]

\* position of a coordinate in the enumeration: z outermost, then y, then x
EnumKey(c) == ((c[3] + Radius) * (MaxYCap + 1) + c[2]) * (2 * Radius + 1) + c[1] + Radius

\* C3: the startup sequence of updateChunk requests is in non-decreasing
\* Euclidean distance from (0,0,0), starts with (0,0,0), and entries at equal
\* distance keep their enumeration order (z, then y, then x).  Distances are
\* compared by their squares; equal-distance entries of a sorted sequence are
\* contiguous, so the order of neighbours decides the order of any two.
C3_NearestFirstStable ==
    pc = "running" =>
        /\ requests[1] = <<0, 0, 0>>
        /\ \A i \in 1..(Len(requests) - 1) :
              /\ Dist2(requests[i]) <= Dist2(requests[i + 1])
              /\ Dist2(requests[i]) = Dist2(requests[i + 1])
                    => EnumKey(requests[i]) < EnumKey(requests[i + 1])

\* the startup sequence over four layers, whose first tie (distance 1) came out
\* in enumeration order
C3_Witness ==
    /\ pc = "running"
    /\ Len(requests) = 196
    /\ SubSeq(requests, 2, 6)
         = << <<0, 0, -1>>, <<-1, 0, 0>>, <<1, 0, 0>>, <<0, 1, 0>>, <<0, 0, 1>> >>

(* ---------------------------------- C4 --------------------------------- *)

StoredYs == {stored[i].y : i \in 1..Len(stored)}

\* min(1 + max(0, largest stored y), 3)
ExpectedMaxY ==
    LET top == CHOOSE m \in StoredYs \cup {0} : \A y \in StoredYs \cup {0} : y <= m
    IN  IF 1 + top <= 3 THEN 1 + top ELSE 3

\* C4: the coordinates requested at startup are exactly x in [-3,3],
\* y in [0,maxY], z in [-3,3] with maxY = min(1 + max(0, largest stored y), 3),
\* in a sequence of 49 * (maxY + 1) entries: 98 for empty storage, maxY = 3 for
\* a stored y of 5, maxY = 1 for a stored y of -1.
C4_RequestedRegion ==
    pc = "running" =>
        /\ {requests[i] : i \in 1..Len(requests)}
             = (-3..3) \X (0..ExpectedMaxY) \X (-3..3)
        /\ Len(requests) = 49 * (ExpectedMaxY + 1)
        /\ stored = << >> => Len(requests) = 98
        /\ StoredYs = {5} => Len(requests) = 49 * 4
        /\ StoredYs = {-1} => Len(requests) = 49 * 2

\* startup with a stored chunk at y = 5 and one at y = -1 requested four layers
C4_Witness ==
    /\ pc = "running"
    /\ StoredYs = {-1, 5}
    /\ Len(requests) = 196

(* ---------------------------------- C5 --------------------------------- *)

\* C5: over one run of the page every chunk coordinate is requested at most
\* once: requests holds every updateChunk call made since the page loaded, and
\* no two of them are for the same coordinate, whatever events were handled.
C5_RequestedAtMostOnce ==
    Cardinality({requests[i] : i \in 1..Len(requests)}) = Len(requests)

\* a tick handled after startup, with the startup requests the only ones made
C5_Witness ==
    /\ IsTick
    /\ Len(requests) = 98

(* ---------------------------------- C6 --------------------------------- *)

\* C6 as claimed: on every tick the delta lies in [0, 1.0], and a tick more
\* than one second after the previous tick gets exactly 1.0.
C6_GapOverOneSecondGivesOne ==
    IsTick =>
        /\ 0 <= ev.delta /\ ev.delta <= OneSecond
        /\ (~ev.first /\ ev.gap * MicrosPerMilli > OneSecond) => ev.delta = OneSecond

\* C6 (amended): on every tick the delta lies in [0, 1.0]; it is the time since
\* the clock's reference, cut at 1.0, so a tick more than one second after the
\* previous tick gets exactly 1.0 when no visibility change has restarted the
\* clock in between (the previous tick is then the reference), and a tick more
\* than one second after the reference gets exactly 1.0 in every case.
C6_DeltaClamped ==
    IsTick =>
        /\ 0 <= ev.delta /\ ev.delta <= OneSecond
        /\ (~ev.first /\ ev.gap = ev.elapsed /\ ev.gap * MicrosPerMilli > OneSecond)
              => ev.delta = OneSecond
        /\ (~ev.first /\ ev.elapsed * MicrosPerMilli > OneSecond) => ev.delta = OneSecond

\* a tick ten seconds after the previous one, with the clock not restarted in
\* between, got exactly one second
C6_Witness ==
    /\ IsTick
    /\ ~ev.first
    /\ ev.gap = 10000
    /\ ev.elapsed = 10000
    /\ ev.delta = OneSecond

(* ---------------------------------- C7 --------------------------------- *)

\* C7: on a tick with Walk mode active walk.update is called exactly 4 times,
\* each time with a quarter of that tick's delta, so the sub-steps add up to
\* the delta.  (The callback does not write the mode.)
C7_FourQuarterSteps ==
    (IsTick /\ walkEnabled) =>
        /\ Count(log, "walk.update") = 4
        /\ \A i \in Calls(log, "walk.update") : 4 * log[i].arg = ev.delta

\* a Walk-mode tick with a delta of one second made four steps of a quarter second
C7_Witness ==
    /\ IsTick
    /\ walkEnabled
    /\ ev.delta = OneSecond
    /\ Calls(log, "walk.update") = {2, 3, 4, 5}
    /\ log[2].arg = 250000

(* ---------------------------------- C8 --------------------------------- *)

\* the calls and writes that make up each command
ToggleWalkCount == Count(log, "walk.toggle")

ToggleMaterialViewCount == Count(log, "materials.triangles.visible=")

ResetStateCount == Count(log, "location.reload")

SetCursorSizeCount == Count(log, "size.setValue")

ToggleOrientationModeCount == Count(log, "orientation.toggleMode")

UndoCount == Count(log, "world.undo")

RedoCount == Count(log, "world.redo")

\* C8: with Walk inactive every Ctrl+KeyZ key-down dispatches exactly one Undo,
\* or exactly one Redo when Shift is held, with or without repeat; a key-down
\* with repeat set dispatches none of ToggleWalk, ToggleMaterialView,
\* ResetState, SetCursorSize, ToggleOrientationMode.
C8_RepeatSuppression ==
    IsKeyDown =>
        /\ (~walkEnabled /\ ev.ctrl /\ ev.code = "KeyZ") =>
              /\ UndoCount = (IF ev.shift THEN 0 ELSE 1)
              /\ RedoCount = (IF ev.shift THEN 1 ELSE 0)
        /\ ev.repeat =>
              /\ ToggleWalkCount = 0
              /\ ToggleMaterialViewCount = 0
              /\ ResetStateCount = 0
              /\ SetCursorSizeCount = 0
              /\ ToggleOrientationModeCount = 0

\* a repeated Ctrl+KeyZ key-down outside Walk dispatched one Undo
C8_Witness ==
    /\ IsKeyDown
    /\ ev.code = "KeyZ" /\ ev.ctrl /\ ~ev.shift /\ ev.repeat
    /\ ~walkEnabled
    /\ UndoCount = 1

(* ---------------------------------- C9 --------------------------------- *)

\* C9: a tick renders exactly once if needsUpdate is true at its test and not
\* at all if it is false, and leaves needsUpdate false.
C9_RenderIffDirty ==
    IsTick =>
        /\ Count(log, "render") = (IF ev.dirty THEN 1 ELSE 0)
        /\ ~needsUpdate

\* an idle tick: the flag was false at the test and nothing was rendered
C9_Witness ==
    /\ IsTick
    /\ ~ev.dirty
    /\ Count(log, "render") = 0

(* ---------------------------------- C10 -------------------------------- *)

\* C10: a key-down after which Walk is active dispatches none of SetCursorSize,
\* ToggleOrientationMode, Undo, Redo and writes neither enablePan nor
\* enableRotate; a key-up in Walk writes neither; ToggleWalk, ToggleMaterialView
\* and ResetState are still dispatched by their non-repeat chords in Walk.
C10_WalkCapturesInput ==
    [][ /\ (ev'.type \in {"keydown", "keyup"} /\ walkEnabled') =>
              /\ enablePan' = enablePan
              /\ enableRotate' = enableRotate
              /\ Count(log', "size.setValue") = 0
              /\ Count(log', "orientation.toggleMode") = 0
              /\ Count(log', "world.undo") = 0
              /\ Count(log', "world.redo") = 0
        /\ (ev'.type = "keydown" /\ ~ev'.repeat /\ walkEnabled /\ pc = "running") =>
              /\ ev'.code = "Escape" => Count(log', "walk.toggle") = 1
              /\ ev'.code = "Tab" => Count(log', "materials.triangles.visible=") = 1
              /\ (ev'.code = "Backspace" /\ ev'.ctrl) => Count(log', "location.reload") = 1
      ]_vars

\* a non-repeat Space key-down in Walk left Pan and Rotate disabled
C10_Witness ==
    /\ IsKeyDown
    /\ ev.code = "Space" /\ ~ev.repeat
    /\ walkEnabled
    /\ ~enablePan /\ ~enableRotate

(* ---------------------------------- C11 -------------------------------- *)

DrawCalls(l) ==
    Count(l, "drawing.start") + Count(l, "drawing.move") + Count(l, "drawing.end")

\* C11: on a page without the UI panel or without the viewport the top-level
\* code throws before it registers any listener, starts the render loop or
\* requests any chunk, and none of these happens later in that run: no handler
\* ever runs and no chunk is ever requested.
C11_AbortBeforeWiring ==
    (~hasUi \/ ~hasViewport) =>
        /\ pc \in {"start", "aborted"}
        /\ ev.type \in {"load", "startup"}
        /\ Count(log, "addEventListener") = 0
        /\ Count(log, "setAnimationLoop") = 0
        /\ requests = << >>
        /\ pc = "aborted" => Count(log, "throw") = 1

\* the top-level code threw on a page with a UI panel and no viewport
C11_Witness ==
    /\ pc = "aborted"
    /\ hasUi /\ ~hasViewport
    /\ log = << Call("throw", "viewport") >>

(* ---------------------------------- C12 -------------------------------- *)

\* C12: whenever the modifier's key-up has just been delivered, Pan and Rotate
\* are disabled, also when Walk was toggled while the modifier was held.
C12_ReleasedMeansDisabled ==
    (ev.type = "keyup" /\ ev.code = "Space") => (~enablePan /\ ~enableRotate)

(* ---------------------------------- C13 -------------------------------- *)

\* the handler that ran last made a mode transition: a non-repeat Escape, or a
\* modifier key-down or key-up outside Walk
IsModeTransition(e, walkAfter) ==
    \/ e.type = "keydown" /\ e.code = "Escape" /\ ~e.repeat
    \/ e.type = "keydown" /\ e.code = "Space" /\ ~e.repeat /\ ~walkAfter
    \/ e.type = "keyup" /\ e.code = "Space" /\ ~walkAfter

C14_RejectedGestureNoDrawCalls ==
    gesture = "rejected" => DrawCalls(log) = 0

\* C14 (amended): a drag-start that fails the gate (Pan enabled or Walk active)
\* calls no draw operation, and drawing.start is called by nothing but an
\* accepted drag-start; the drag-move and drag-end listeners call drawing.move
\* and drawing.end once per event, whether or not the gesture's drag-start was
\* accepted.
C14_OnlyStartIsGated ==
    /\ (ev.type = "dragstart" /\ (enablePan \/ walkEnabled)) =>
            (DrawCalls(log) = 0 /\ gesture = "rejected")
    /\ Count(log, "drawing.start") > 0 => (ev.type = "dragstart" /\ gesture = "accepted")
    /\ ev.type = "dragmove" => log = << Call("drawing.move", "") >>
    /\ ev.type = "dragend" => log = << Call("drawing.end", "") >>

\* a drag-move of a rejected gesture was forwarded to drawing.move
C14_Witness ==
    /\ ev.type = "dragmove"
    /\ gesture = "rejected"
    /\ Count(log, "drawing.move") = 1

(* ---------------------------------- C15 -------------------------------- *)

\* C15: within a tick controls.update() comes first, then the walk sub-steps,
\* then the test of the dirty flag and the render; so when the flag was false
\* on entry and is true at the test (raised by the camera update or a walk
\* sub-step), the render happens in this same tick, after those calls.
C15_UpdateWalkThenRender ==
    [][ ev'.type = "tick" =>
            /\ log'[1].op = "controls.update"
            /\ \A i \in 2..5 : log'[i].op = "walk.update"
            /\ \A i \in 1..Len(log') : log'[i].op = "render" => i = 6
            /\ (~needsUpdate /\ ev'.dirty) => (Len(log') = 6 /\ log'[6].op = "render")
      ]_vars

\* a tick entered with nothing owed, on which an update raised the flag, rendered
C15_Witness ==
    /\ IsTick
    /\ ev.dirty
    /\ Len(log) = 6
    /\ log[1].op = "controls.update"
    /\ log[6].op = "render"

(* ---------------------------------- C16 -------------------------------- *)

\* the tick that ran last rendered
Rendered == IsTick /\ Count(log, "render") = 1

\* C16: while the page runs, the dirty flag goes from true to false only in a
\* tick, and that tick renders: no listener clears it.  With the render loop
\* called again and again, a set flag is therefore followed by a render, unless
\* the reset key has the page reloaded first (the flag goes with the page).
C16_DirtyNeverLost ==
    /\ [][ (needsUpdate /\ ~needsUpdate' /\ pc' = "running") =>
               (ev'.type = "tick" /\ Count(log', "render") = 1) ]_vars
    /\ ((needsUpdate /\ pc = "running") ~> (Rendered \/ pc = "reloading"))

\* a tick later than the first one found the flag set, rendered and cleared it
C16_Witness ==
    /\ Rendered
    /\ ~ev.first
    /\ ev.dirty
    /\ ~needsUpdate

(* ---------------------------------- C17 -------------------------------- *)

\* C17 as claimed: on a tick with Walk not active the render loop does not call
\* walk.update.
C17_NoWalkUpdateOutsideWalk ==
    (IsTick /\ ~walkEnabled) => Count(log, "walk.update") = 0

\* C17 (amended): the render loop calls walk.update 4 times on every tick,
\* with Walk active or not; it does not test the mode itself, so whether the
\* simulation advances outside Walk is left to Walk.update.
C17_WalkUpdateOnEveryTick ==
    IsTick => Calls(log, "walk.update") = 2..5

\* a tick outside Walk called walk.update four times
C17_Witness ==
    /\ IsTick
    /\ ~walkEnabled
    /\ Count(log, "walk.update") = 4

(* ---------------------------------- C18 -------------------------------- *)

\* C18: once a drag-start has been accepted, every drag-move is forwarded to
\* drawing.move and the drag-end to drawing.end, and until that drag-end the
\* gesture stays in progress whatever else is handled, toggling Walk or
\* pressing the modifier included (only a reload of the page ends it early).
C18_StartedGestureContinues ==
    [][ (gesture = "accepted" /\ pc' = "running") =>
            /\ ev'.type = "dragmove" => Count(log', "drawing.move") = 1
            /\ ev'.type = "dragend" => Count(log', "drawing.end") = 1
            /\ gesture' = "accepted" \/ (ev'.type = "dragend" /\ gesture' = "none")
      ]_vars

\* a drag-move of an accepted gesture was forwarded while Walk was active
C18_Witness ==
    /\ ev.type = "dragmove"
    /\ gesture = "accepted"
    /\ walkEnabled
    /\ Count(log, "drawing.move") = 1

\* the same with Pan enabled instead
C18_WitnessPan ==
    /\ ev.type = "dragmove"
    /\ gesture = "accepted"
    /\ enablePan /\ ~walkEnabled
    /\ Count(log, "drawing.move") = 1

(* ---------------------------------- C19 -------------------------------- *)

\* C19: controls.enablePan and controls.enableRotate are equal in every
\* reachable state, so a drag-start that calls drawing.start finds Rotate
\* disabled too.
C19_PanEqualsRotate ==
    /\ enablePan = enableRotate
    /\ Count(log, "drawing.start") > 0 => ~enableRotate

\* the modifier was pressed and released outside Walk: both flags went on and
\* are both off again
C19_Witness ==
    /\ ev.type = "keyup" /\ ev.code = "Space"
    /\ ~walkEnabled
    /\ ~enablePan /\ ~enableRotate

(* ---------------------------------- C20 -------------------------------- *)

IsTab(e) == e.type = "keydown" /\ e.code = "Tab" /\ ~e.repeat

====
